---- MODULE Spec2Model ----
(***************************************************************************)
(* Model of the keyboard interaction manager of src/src/keyboard-manager.ts *)
(* (class KeyboardManager): the pressed-key list, the pressed-button set,   *)
(* the rest-position table and the power state, driven by press events      *)
(* (onIntersectObject), release events (resetKeys) and the completion of    *)
(* the animations the manager hands to the tweening engine.                 *)
(*                                                                          *)
(* Strings are sequences of one-character strings, so that includes() and   *)
(* split() are computed on the characters as the code computes them.        *)
(* Positions are in thousandths of a scene unit (0.01 is 10) and durations  *)
(* in milliseconds (0.3 s is 300).                                          *)
(***************************************************************************)
EXTENDS Integers, Sequences, FiniteSets, TLC

VARIABLES
    pressedKeys,     \* keyboard-manager.ts:7   string[]
    pressedButtons,  \* keyboard-manager.ts:8   Set<string>
    restPositions,   \* keyboard-manager.ts:9   Map<string, number>
    powerOn,         \* keyboard-manager.ts:10  boolean
    scene,           \* game-state.ts:124 (unnamed/part_000) names of the objects a pick ray can hit
    keyboard,        \* keyboard-manager.ts:15  the nodes under the keyboard root: name -> position.y at construction
    hasLed,          \* keyboard-manager.ts:119 whether powerButtonHousing.children[1] exists
    ledColor,        \* keyboard-manager.ts:126 colour last set on the indicator material
    timelines,       \* keyboard-manager.ts:104 gsap timelines in flight: the steps still to run
    cmds,            \* effector commands issued by the last event, in order
    attackLog,       \* notes given triggerAttack and no triggerRelease since, in order
    toggles,         \* flips of powerOn since the last completion callback
    lastEvent,       \* the last event handled and the path its handler took
    \* The same keyboard handled by the handlers inlined in GameState
    \* (src/src/game-state.ts), fed the same events:
    gsPressedKeys,    \* game-state.ts:18  string[]
    gsPressedButtons, \* game-state.ts:19  Set<string>
    gsRestPositions,  \* game-state.ts:20  Map<string, number>
    gsPowerOn,        \* game-state.ts:21  boolean
    gsLedColor,       \* game-state.ts:206 colour last set on the indicator material
    gsTimelines,      \* game-state.ts:184 gsap timelines in flight
    gsCmds            \* effector commands GameState issued for the last event, in order

gsVars == <<gsPressedKeys, gsPressedButtons, gsRestPositions, gsPowerOn, gsLedColor,
            gsTimelines, gsCmds>>

vars == <<pressedKeys, pressedButtons, restPositions, powerOn, scene, keyboard, hasLed,
          ledColor, timelines, cmds, attackLog, toggles, lastEvent, gsVars>>

----------------------------------------------------------------------------
(* Strings *)

powerButton == <<"p","o","w","e","r","B","u","t","t","o","n">>
KeyMarker == <<"K","e","y">>
KeyPrefix == <<"K","e","y","_">>
Sharp == <<"#">>
Underscore == "_"

\* The value of an absent array element or map entry.
undefined == <<"undefined">>

\* String.prototype.includes
Includes(s, sub) ==
    \E i \in 0..(Len(s) - Len(sub)) : SubSeq(s, i + 1, i + Len(sub)) = sub

\* String.prototype.split on a one-character separator: the segments in order.
RECURSIVE Split(_, _)
Split(s, sep) ==
    IF \A i \in 1..Len(s) : s[i] # sep
    THEN <<s>>
    ELSE LET i == CHOOSE k \in 1..Len(s) :
                      s[k] = sep /\ \A j \in 1..(k - 1) : s[j] # sep
         IN  <<SubSeq(s, 1, i - 1)>> \o Split(SubSeq(s, i + 1, Len(s)), sep)

\* array[i] with a zero-based index: undefined past the end.
At(arr, i) == IF i + 1 <= Len(arr) THEN arr[i + 1] ELSE undefined

\* Mutant of Falsy: only undefined is rejected, the empty string is not.
FalsyUndefinedOnly(name) == name = undefined

\* !name for a string or undefined
Falsy(name) == name = undefined \/ name = <<>>

\* The 25 note names setup scans for.
NOTES ==
    << <<"C","3">>, <<"C","#","3">>, <<"D","3">>, <<"D","#","3">>, <<"E","3">>,
       <<"F","3">>, <<"F","#","3">>, <<"G","3">>, <<"G","#","3">>, <<"A","3">>,
       <<"A","#","3">>, <<"B","3">>,
       <<"C","4">>, <<"C","#","4">>, <<"D","4">>, <<"D","#","4">>, <<"E","4">>,
       <<"F","4">>, <<"F","#","4">>, <<"G","4">>, <<"G","#","4">>, <<"A","4">>,
       <<"A","#","4">>, <<"B","4">>,
       <<"C","5">> >>

\* `Key_${key}`
KeyNode(key) == KeyPrefix \o key

----------------------------------------------------------------------------
(* The scene *)

Key_C3 == KeyNode(<<"C","3">>)
Key_Cs3 == KeyNode(<<"C","#","3">>)
Key_D3 == KeyNode(<<"D","3">>)
Key_X9 == KeyNode(<<"X","9">>)
BareKey == KeyMarker
KeyNoNote == KeyPrefix
Floor == <<"f","l","o","o","r">>

\* Every object name of the model.
SceneNames == {powerButton, Key_C3, Key_Cs3, Key_D3, Key_X9, BareKey, KeyNoNote, Floor}

\* The scenes: the objects a pick ray can return
\* (raycaster.intersectObjects(scene.children)): a keyboard of three keys, and a
\* keyboard of two keys among objects that are no keys.
Scenes ==
    { {powerButton, Key_C3, Key_Cs3, Key_D3},
      {powerButton, Key_C3, Key_Cs3, Key_X9, BareKey, KeyNoNote, Floor} }

\* The vertical offsets a node of the keyboard model can have at construction,
\* when it is there at all. Zero is a position like any other.
InitialYs(n) ==
    IF n \in {powerButton, Key_C3} THEN {0, 20}
    ELSE IF n = Key_Cs3 THEN {25}
    ELSE IF n = Key_D3 THEN {30}
    ELSE {0}

\* The nodes a keyboard model may lack while the scene holds an object of the name.
Optional == {powerButton, Key_C3}

\* The keyboard models of a scene: every object of the scene but the optional ones
\* is a node of the model, each at one of its offsets.
Keyboards(sc) ==
    UNION { {kb \in [sc \ miss -> UNION {InitialYs(n) : n \in sc}] :
                \A n \in DOMAIN kb : kb[n] \in InitialYs(n)}
            : miss \in SUBSET (Optional \cap sc) }

\* Press depths, offsets and durations of the animations.
SharpPressAmount == 5
NaturalPressAmount == 10
PowerPressAmount == 2
KeyDuration == 300
PowerDuration == 200
PowerDelay == 100

----------------------------------------------------------------------------
(* Effector commands *)

GsapTo(obj, y, ms) ==
    [op |-> "gsap.to", obj |-> obj, y |-> y, ms |-> ms, delay |-> 0, onComplete |-> FALSE]

TimelineTo(obj, y, ms, delay, onComplete) ==
    [op |-> "timeline.to", obj |-> obj, y |-> y, ms |-> ms, delay |-> delay,
     onComplete |-> onComplete]

TriggerAttack(note) ==
    [op |-> "triggerAttack", obj |-> note, y |-> 0, ms |-> 0, delay |-> 0, onComplete |-> FALSE]

TriggerRelease(note) ==
    [op |-> "triggerRelease", obj |-> note, y |-> 0, ms |-> 0, delay |-> 0, onComplete |-> FALSE]

SetColorName(color) ==
    [op |-> "setColorName", obj |-> color, y |-> 0, ms |-> 0, delay |-> 0, onComplete |-> FALSE]

----------------------------------------------------------------------------
(* The manager *)

\* Map.prototype.get(k) !== undefined
Has(map, k) == k \in DOMAIN map

\* if (map.get(k)): present and not zero
Truthy(map, k) == k \in DOMAIN map /\ map[k] # 0

\* Mutants of ArrayIncludes: a check that never finds the name, and one that
\* looks at the last element only.
ArrayIncludesNever(arr, x) == FALSE
ArrayIncludesLast(arr, x) == Len(arr) > 0 /\ arr[Len(arr)] = x

\* Array.prototype.includes
ArrayIncludes(arr, x) == \E i \in 1..Len(arr) : arr[i] = x

NoteSet == {NOTES[i] : i \in 1..Len(NOTES)}

\* setup(): the rest position of every note whose node is found, and of the
\* power button when it is found.
setup(kb) ==
    LET found == {key \in NoteSet : KeyNode(key) \in DOMAIN kb}
        names == found \cup (IF powerButton \in DOMAIN kb THEN {powerButton} ELSE {})
    IN  [k \in names |-> IF k = powerButton THEN kb[powerButton] ELSE kb[KeyNode(k)]]

Init ==
    /\ scene \in Scenes
    /\ keyboard \in Keyboards(scene)
    /\ hasLed \in BOOLEAN
    /\ restPositions = setup(keyboard)
    /\ pressedKeys = <<>>
    /\ pressedButtons = {}
    /\ powerOn = FALSE
    /\ ledColor = "initial"
    /\ timelines = <<>>
    /\ cmds = <<>>
    /\ attackLog = <<>>
    /\ toggles = 0
    /\ lastEvent = [op |-> "constructor", name |-> <<>>, path |-> "setup"]

Scene == <<restPositions, scene, keyboard, hasLed>>

\* A handler that returns without touching anything.
NoOp(object, path) ==
    /\ lastEvent' = [op |-> "onIntersectObject", name |-> object, path |-> path]
    /\ cmds' = <<>>
    /\ UNCHANGED <<pressedKeys, pressedButtons, powerOn, ledColor, timelines, attackLog, toggles, Scene>>

\* Mutant of PowerPressedPosition: the button goes as deep as a key.
PowerPressedPositionDeep(restPosition) == restPosition - NaturalPressAmount

\* pressPowerButton(button)
PowerPressedPosition(restPosition) == restPosition - PowerPressAmount

\* Mutant of PowerTimeline: onComplete is put on the press step, not the return step.
PowerTimelineEarly(button) ==
    IF Truthy(restPositions, button)
    THEN << TimelineTo(button, PowerPressedPosition(restPositions[button]),
                       PowerDuration, 0, TRUE),
            TimelineTo(button, restPositions[button], PowerDuration, PowerDelay, FALSE) >>
    ELSE <<>>

PowerTimeline(button) ==
    IF Truthy(restPositions, button)
    THEN << TimelineTo(button, PowerPressedPosition(restPositions[button]),
                       PowerDuration, 0, FALSE),
            TimelineTo(button, restPositions[button], PowerDuration, PowerDelay, TRUE) >>
    ELSE <<>>

\* Mutant of LedColor: the two colours the wrong way round.
LedColorSwapped(on) == IF on THEN "red" ELSE "green"

\* const color = this.powerOn ? "green" : "red"
LedColor(on) == IF on THEN "green" ELSE "red"

\* Mutants of ButtonPressed: no debounce, and a debounce that also holds the
\* button back while keys are held.
ButtonPressedNever(button) == FALSE
ButtonPressedOrKeysHeld(button) == button \in pressedButtons \/ pressedKeys # <<>>

\* this.pressedButtons.has(button.name)
ButtonPressed(button) == button \in pressedButtons

pressPowerButton(button) ==
    IF ButtonPressed(button)
    THEN NoOp(button, "power-debounced")
    ELSE /\ powerOn' = ~powerOn
         /\ pressedButtons' = pressedButtons \cup {button}
         /\ timelines' = IF PowerTimeline(button) # <<>>
                         THEN Append(timelines, PowerTimeline(button))
                         ELSE timelines
         /\ ledColor' = IF hasLed THEN LedColor(powerOn') ELSE ledColor
         /\ cmds' = PowerTimeline(button)
                    \o (IF hasLed THEN <<SetColorName(LedColor(powerOn'))>> ELSE <<>>)
         /\ toggles' = toggles + 1
         /\ lastEvent' = [op |-> "onIntersectObject", name |-> button, path |-> "power"]
         /\ UNCHANGED <<pressedKeys, attackLog, Scene>>

\* pressKey(object)
KeyName(objectName) == At(Split(objectName, Underscore), 1)

\* Mutant of PressAmount: one depth for every key.
PressAmountFlat(name) == NaturalPressAmount

PressAmount(name) ==
    IF Includes(name, Sharp) THEN SharpPressAmount ELSE NaturalPressAmount

PressedPosition(name) == restPositions[name] - PressAmount(name)

\* Animate key press
AnimateKey(object, name) ==
    IF Has(restPositions, name)
    THEN <<GsapTo(object, PressedPosition(name), KeyDuration)>>
    ELSE <<>>

\* Mutant of SoundKey: the attack is not gated by the power state.
SoundKeyAlways(name) == <<TriggerAttack(name)>>

\* Sound the key - if the power is on
SoundKey(name) == IF powerOn THEN <<TriggerAttack(name)>> ELSE <<>>

Range(seq) == {seq[i] : i \in 1..Len(seq)}

\* The notes of the triggerAttack commands of cs, in order.
RECURSIVE Attacked(_)
Attacked(cs) ==
    IF cs = <<>> THEN <<>>
    ELSE (IF Head(cs).op = "triggerAttack" THEN <<Head(cs).obj>> ELSE <<>>)
         \o Attacked(Tail(cs))

pressKey(object) ==
    LET name == KeyName(object) IN
    IF Falsy(name) THEN NoOp(object, "key-unresolved")
    ELSE IF ArrayIncludes(pressedKeys, name) THEN NoOp(object, "key-held")
    ELSE /\ pressedKeys' = Append(pressedKeys, name)
         /\ cmds' = AnimateKey(object, name) \o SoundKey(name)
         /\ attackLog' = attackLog \o Attacked(cmds')
         /\ lastEvent' = [op |-> "onIntersectObject", name |-> object, path |-> "key"]
         /\ UNCHANGED <<pressedButtons, powerOn, ledColor, timelines, toggles, Scene>>

\* onIntersectObject(object): one press event on the nearest object hit.
onIntersectObject(object) ==
    IF object = powerButton THEN pressPowerButton(object)
    ELSE IF Includes(object, KeyMarker) THEN pressKey(object)
    ELSE NoOp(object, "ignored")

\* resetKeys(): one release event.
\* Mutant of ReturnPosition: the return target is offset by the press depth
\* instead of being the cached rest position itself.
ReturnPositionOffset(key) == restPositions[key] + PressAmount(key)

\* y: restPosition
ReturnPosition(key) == restPositions[key]

\* Mutant of ResetKey: the release is sent only while the power is on.
ResetKeyIfPowered(key) ==
    (IF powerOn THEN <<TriggerRelease(key)>> ELSE <<>>)
    \o (IF KeyNode(key) \in DOMAIN keyboard /\ Has(restPositions, key)
        THEN <<GsapTo(KeyNode(key), ReturnPosition(key), KeyDuration)>>
        ELSE <<>>)

\* The body of the forEach, for one key.
ResetKey(key) ==
    <<TriggerRelease(key)>>
    \o (IF KeyNode(key) \in DOMAIN keyboard /\ Has(restPositions, key)
        THEN <<GsapTo(KeyNode(key), ReturnPosition(key), KeyDuration)>>
        ELSE <<>>)

\* Mutant of ResetCmds: only the first pressed key is handled.
ResetCmdsFirst(keys) ==
    IF keys = <<>> THEN <<>>
    ELSE <<TriggerRelease(Head(keys))>>
         \o (IF KeyNode(Head(keys)) \in DOMAIN keyboard /\ Has(restPositions, Head(keys))
             THEN <<GsapTo(KeyNode(Head(keys)), restPositions[Head(keys)], KeyDuration)>>
             ELSE <<>>)

RECURSIVE ResetCmds(_)
ResetCmds(keys) ==
    IF keys = <<>> THEN <<>>
    ELSE ResetKey(Head(keys)) \o ResetCmds(Tail(keys))

resetKeys ==
    /\ cmds' = ResetCmds(pressedKeys)
    /\ pressedKeys' = <<>>
    /\ attackLog' = SelectSeq(attackLog, LAMBDA n : TriggerRelease(n) \notin Range(cmds'))
    /\ lastEvent' = [op |-> "resetKeys", name |-> <<>>, path |-> "release"]
    /\ UNCHANGED <<pressedButtons, powerOn, ledColor, timelines, toggles, Scene>>

\* The tweening engine finishes the next step of a timeline; the last step of the
\* power-button timeline runs onComplete, which deletes the button's name.
RemoveAt(seq, i) == SubSeq(seq, 1, i - 1) \o SubSeq(seq, i + 1, Len(seq))

TimelineStep(i) ==
    /\ i \in 1..Len(timelines)
    /\ LET step == Head(timelines[i])
           rest == Tail(timelines[i])
       IN  /\ timelines' = IF rest = <<>> THEN RemoveAt(timelines, i)
                           ELSE [timelines EXCEPT ![i] = rest]
           /\ pressedButtons' = IF step.onComplete THEN pressedButtons \ {step.obj}
                                ELSE pressedButtons
           /\ toggles' = IF step.onComplete THEN 0 ELSE toggles
           /\ lastEvent' = [op |-> "timeline", name |-> step.obj,
                            path |-> IF step.onComplete THEN "onComplete" ELSE "step"]
    /\ cmds' = <<>>
    /\ UNCHANGED <<pressedKeys, powerOn, ledColor, attackLog, Scene>>

----------------------------------------------------------------------------
(* The handlers inlined in GameState (src/src/game-state.ts) *)

\* GameState constructor, lines 61-103: the rest positions, the keyboard being there.
gsSetup(kb) ==
    LET keys == {NOTES[i] : i \in 1..Len(NOTES)}
        notes == [k \in {key \in keys : (KeyPrefix \o key) \in DOMAIN kb}
                    |-> kb[KeyPrefix \o k]]
    IN  IF powerButton \in DOMAIN kb
        THEN [k \in DOMAIN notes \cup {powerButton} |->
                 IF k = powerButton THEN kb[powerButton] ELSE notes[k]]
        ELSE notes

gsInit ==
    /\ gsRestPositions = gsSetup(keyboard)
    /\ gsPressedKeys = <<>>
    /\ gsPressedButtons = {}
    /\ gsPowerOn = FALSE
    /\ gsLedColor = "initial"
    /\ gsTimelines = <<>>
    /\ gsCmds = <<>>

gsReturn ==
    /\ gsCmds' = <<>>
    /\ UNCHANGED <<gsPressedKeys, gsPressedButtons, gsRestPositions, gsPowerOn,
                   gsLedColor, gsTimelines>>

\* GameState.pressPowerButton, lines 170-209
gsPressPowerButton(button) ==
    IF button \in gsPressedButtons THEN gsReturn
    ELSE LET animated == button \in DOMAIN gsRestPositions /\ gsRestPositions[button] # 0
             pressTimeline ==
                 IF animated
                 THEN << TimelineTo(button, gsRestPositions[button] - 2, 200, 0, FALSE),
                         TimelineTo(button, gsRestPositions[button], 200, 100, TRUE) >>
                 ELSE <<>>
             color == IF gsPowerOn' THEN "green" ELSE "red"
         IN  /\ gsPowerOn' = ~gsPowerOn
             /\ gsPressedButtons' = gsPressedButtons \cup {button}
             /\ gsTimelines' = IF animated THEN Append(gsTimelines, pressTimeline)
                               ELSE gsTimelines
             /\ gsLedColor' = IF hasLed THEN color ELSE gsLedColor
             /\ gsCmds' = pressTimeline \o (IF hasLed THEN <<SetColorName(color)>> ELSE <<>>)
             /\ UNCHANGED <<gsPressedKeys, gsRestPositions>>

\* GameState.pressKey, lines 211-238
gsPressKey(object) ==
    LET parts == Split(object, "_")
        name == IF Len(parts) >= 2 THEN parts[2] ELSE undefined
    IN  IF name = undefined \/ name = <<>> THEN gsReturn
        ELSE IF \E i \in 1..Len(gsPressedKeys) : gsPressedKeys[i] = name THEN gsReturn
        ELSE /\ gsPressedKeys' = Append(gsPressedKeys, name)
             /\ gsCmds' =
                   (IF name \in DOMAIN gsRestPositions
                    THEN <<GsapTo(object,
                                  gsRestPositions[name]
                                      - (IF Includes(name, <<"#">>) THEN 5 ELSE 10),
                                  300)>>
                    ELSE <<>>)
                   \o (IF gsPowerOn THEN <<TriggerAttack(name)>> ELSE <<>>)
             /\ UNCHANGED <<gsPressedButtons, gsRestPositions, gsPowerOn, gsLedColor,
                            gsTimelines>>

\* GameState.onPointerDown, lines 144-168, for the object the ray hit
onPointerDown(object) ==
    IF object = powerButton THEN gsPressPowerButton(object)
    ELSE IF Includes(object, <<"K","e","y">>) THEN gsPressKey(object)
    ELSE gsReturn

\* GameState.onPointerUp, lines 240-255
RECURSIVE gsStopKeys(_)
gsStopKeys(keys) ==
    IF keys = <<>> THEN <<>>
    ELSE LET key == Head(keys)
         IN  <<TriggerRelease(key)>>
             \o (IF (KeyPrefix \o key) \in DOMAIN keyboard /\ key \in DOMAIN gsRestPositions
                 THEN <<GsapTo(KeyPrefix \o key, gsRestPositions[key], 300)>>
                 ELSE <<>>)
             \o gsStopKeys(Tail(keys))

onPointerUp ==
    /\ gsCmds' = gsStopKeys(gsPressedKeys)
    /\ gsPressedKeys' = <<>>
    /\ UNCHANGED <<gsPressedButtons, gsRestPositions, gsPowerOn, gsLedColor, gsTimelines>>

\* The tweening engine finishes the next step of GameState's i-th timeline, if
\* there is one (lines 184-195); the last step runs onComplete.
gsTimelineStep(i) ==
    IF i \in 1..Len(gsTimelines)
    THEN LET step == Head(gsTimelines[i])
             rest == Tail(gsTimelines[i])
         IN  /\ gsTimelines' =
                   IF rest = <<>>
                   THEN SubSeq(gsTimelines, 1, i - 1)
                        \o SubSeq(gsTimelines, i + 1, Len(gsTimelines))
                   ELSE [gsTimelines EXCEPT ![i] = rest]
             /\ gsPressedButtons' = IF step.onComplete THEN gsPressedButtons \ {step.obj}
                                    ELSE gsPressedButtons
             /\ gsCmds' = <<>>
             /\ UNCHANGED <<gsPressedKeys, gsRestPositions, gsPowerOn, gsLedColor>>
    ELSE gsReturn

----------------------------------------------------------------------------
(* Events: each is handled by the manager and by GameState's own handlers *)

Press == \E object \in scene : onIntersectObject(object) /\ onPointerDown(object)
Release == resetKeys /\ onPointerUp
Timeline == \E i \in 1..Len(timelines) : TimelineStep(i) /\ gsTimelineStep(i)

Next == Press \/ Release \/ Timeline

\* Both are constructed on the same keyboard.
Start == Init /\ gsInit

Spec == Start /\ [][Next]_vars

----------------------------------------------------------------------------
(* Properties *)

Count(seq, x) == Cardinality({i \in 1..Len(seq) : seq[i] = x})

\* The note names a press on an object of the scene can resolve to.
PressableNotes == {KeyName(o) : o \in {n \in SceneNames : ~Falsy(KeyName(n))}}

IsPress == lastEvent'.op = "onIntersectObject"
IsRelease == lastEvent'.op = "resetKeys"

HasSharp(name) == \E i \in 1..Len(name) : name[i] = "#"

\* C1 as stated: for every run of press events on one key with no release in
\* between, the attack command for the note fires exactly once and the note is
\* in pressedKeys exactly once.
C1_AttackExactlyOnce ==
    \A i \in 1..Len(pressedKeys) :
        /\ Count(attackLog, pressedKeys[i]) = 1
        /\ Count(pressedKeys, pressedKeys[i]) = 1

\* C1 amended: over a run of press events on one key with no release in between,
\* the first press adds the note once and fires the attack once if the power is on
\* at that press and not at all if it is off; no later press of the run adds the
\* note or fires an attack.
C1_RepeatedPressIdempotent ==
    [][\A k \in PressableNotes :
          /\ Count(pressedKeys', k) <= 1
          /\ Count(attackLog', k) <= 1
          /\ (Count(pressedKeys, k) = 0 /\ Count(pressedKeys', k) > 0)
                => Count(attackLog', k) = (IF powerOn THEN 1 ELSE 0)
          /\ (Count(pressedKeys, k) > 0 /\ ~IsRelease)
                => /\ Count(pressedKeys', k) = 1
                   /\ Count(attackLog', k) = Count(attackLog, k)
                   /\ (IsPress /\ KeyName(lastEvent'.name) = k) => cmds' = <<>>]_vars

C1_Witness ==
    /\ lastEvent.path = "key-held"
    /\ Count(attackLog, KeyName(lastEvent.name)) = 1
    /\ Count(pressedKeys, KeyName(lastEvent.name)) = 1

\* C2: in every reachable state no note name occurs twice in pressedKeys.
C2_NoDuplicates ==
    \A i, j \in 1..Len(pressedKeys) : pressedKeys[i] = pressedKeys[j] => i = j

C2_Witness ==
    /\ Len(pressedKeys) >= 3
    /\ lastEvent.path = "key-held"
    /\ KeyName(lastEvent.name) = pressedKeys[1]

Animations(cs, obj) == SelectSeq(cs, LAMBDA c : c.op = "gsap.to" /\ c.obj = obj)
Releases(cs, note) == SelectSeq(cs, LAMBDA c : c.op = "triggerRelease" /\ c.obj = note)
Attacks(cs) == SelectSeq(cs, LAMBDA c : c.op = "triggerAttack")

\* C3 as stated: a release event leaves pressedKeys empty and issues, for every
\* note that was in pressedKeys, exactly one triggerRelease and exactly one
\* animation of the note's key back to rest, and none for any other note.
C3_ReleaseCommandsEveryKey ==
    [][IsRelease =>
          /\ pressedKeys' = <<>>
          /\ \A k \in PressableNotes :
                LET n == IF Count(pressedKeys, k) > 0 THEN 1 ELSE 0
                IN  /\ Len(Releases(cmds', k)) = n
                    /\ Len(Animations(cmds', KeyNode(k))) = n]_vars

\* C4: a press of the power button while its name is not in pressedButtons flips
\* powerOn once and puts the name in; a press while the name is in (the completion
\* callback has not run) changes nothing and issues nothing; so powerOn has been
\* flipped exactly once whenever the name is in pressedButtons, and in particular
\* when the completion callback runs.
C4_PowerDebounce ==
    /\ [](toggles = IF powerButton \in pressedButtons THEN 1 ELSE 0)
    /\ [][(IsPress /\ lastEvent'.name = powerButton) =>
             IF powerButton \notin pressedButtons
             THEN /\ powerOn' = ~powerOn
                  /\ pressedButtons' = pressedButtons \cup {powerButton}
             ELSE /\ cmds' = <<>>
                  /\ UNCHANGED <<pressedKeys, pressedButtons, restPositions, powerOn,
                                 ledColor, timelines>>]_vars
    /\ [][lastEvent'.path = "onComplete" => (toggles = 1 /\ powerOn' = powerOn)]_vars

C4_Witness ==
    /\ lastEvent.op = "onIntersectObject"
    /\ lastEvent.name = powerButton
    /\ lastEvent.path = "power-debounced"
    /\ timelines # <<>>
    /\ powerOn

\* C5 as stated: when the keyboard has no powerButton node (no rest position is
\* recorded for it), a press on an object named powerButton changes none of
\* powerOn, pressedButtons and pressedKeys and issues no command.
C5_MissingPowerButtonNoOp ==
    [][(powerButton \notin DOMAIN keyboard /\ IsPress /\ lastEvent'.name = powerButton) =>
          /\ UNCHANGED <<powerOn, pressedButtons, pressedKeys>>
          /\ cmds' = <<>>]_vars

\* C6: a triggerAttack is issued only by a key press handled while powerOn holds,
\* for the note of that press and only when the note was not yet in pressedKeys; a
\* key press handled while powerOn is false issues none, and neither does any
\* power-button press, release or repeated press of a held key.
C6_AttackOnlyAtPoweredPress ==
    [][/\ Attacks(cmds') # <<>> =>
             /\ IsPress
             /\ powerOn
             /\ lastEvent'.name # powerButton
             /\ Attacks(cmds') = <<TriggerAttack(KeyName(lastEvent'.name))>>
             /\ Count(pressedKeys, KeyName(lastEvent'.name)) = 0
       /\ ~powerOn => Attacks(cmds') = <<>>
       /\ (IsPress /\ lastEvent'.name = powerButton) => attackLog' = attackLog]_vars

C6_Witness ==
    /\ powerOn
    /\ lastEvent.path = "key-held"
    /\ Count(pressedKeys, KeyName(lastEvent.name)) = 1
    /\ Count(attackLog, KeyName(lastEvent.name)) = 0

\* C7 as stated: every key press that appends its note to pressedKeys issues an
\* animation of the key that was hit, with the power on or off.
C7_AcceptedPressAnimates ==
    [][(IsPress /\ Len(pressedKeys') = Len(pressedKeys) + 1) =>
          Animations(cmds', lastEvent'.name) # <<>>]_vars

\* C8: the animation an accepted key press issues, which it does whenever a rest
\* position is recorded for the note, goes to the rest position minus 5 (0.005) if
\* the note name has a '#' and minus 10 (0.01) if it has none; and with the power
\* on, a press of Key_C#3 issues that animation with depth 5 and then the attack
\* for C#3.
C8_PressDepth ==
    [][(IsPress /\ Len(pressedKeys') = Len(pressedKeys) + 1) =>
          LET object == lastEvent'.name
              name == pressedKeys'[Len(pressedKeys')]
              depth == IF HasSharp(name) THEN 5 ELSE 10
          IN  /\ \A i \in 1..Len(cmds') :
                    cmds'[i].op = "gsap.to" =>
                        /\ name \in DOMAIN restPositions
                        /\ cmds'[i] = GsapTo(object, restPositions[name] - depth, 300)
              /\ name \in DOMAIN restPositions => Len(Animations(cmds', object)) = 1
              /\ (object = Key_Cs3 /\ powerOn) =>
                    cmds' = << GsapTo(Key_Cs3, keyboard[Key_Cs3] - 5, 300),
                               TriggerAttack(<<"C","#","3">>) >>]_vars

C8_Witness ==
    /\ lastEvent.path = "key"
    /\ lastEvent.name = Key_Cs3
    /\ pressedKeys = << <<"C","#","3">> >>
    /\ powerOn
    /\ Len(cmds) = 2

\* C9: the rest-position table never changes after construction and holds the
\* offsets the nodes had then; every animation commanded for a key goes either to
\* that offset (every animation a release commands) or to that offset minus the
\* key's one press depth (every animation a press commands), whatever was pressed
\* and released before.
C9_NoCompounding ==
    /\ [](\A k \in DOMAIN restPositions \ {powerButton} :
              restPositions[k] = keyboard[KeyNode(k)])
    /\ [][/\ restPositions' = restPositions
          /\ \A i \in 1..Len(cmds') :
                cmds'[i].op = "gsap.to" =>
                    LET node == cmds'[i].obj
                        depth == IF HasSharp(node) THEN 5 ELSE 10
                    IN  /\ node \in DOMAIN keyboard
                        /\ IsPress => cmds'[i].y = keyboard[node] - depth
                        /\ IsRelease => cmds'[i].y = keyboard[node]
                        /\ IsPress \/ IsRelease]_vars

C9_Witness ==
    /\ lastEvent.op = "resetKeys"
    /\ \E i, j \in 1..Len(cmds) :
          /\ cmds[i].op = "gsap.to" /\ cmds[j].op = "gsap.to"
          /\ cmds[i].obj = Key_C3 /\ cmds[i].y = keyboard[Key_C3]
          /\ cmds[j].obj = Key_Cs3 /\ cmds[j].y = keyboard[Key_Cs3]

\* One of the 25 notes' keys.
RecognizedKey(object) == \E i \in 1..Len(NOTES) : object = KeyPrefix \o NOTES[i]

\* C10 as stated: a press on an object that is neither the power button nor the
\* key of one of the 25 notes changes none of pressedKeys, pressedButtons and
\* powerOn and issues no command.
C10_UnrecognizedNoOp ==
    [][(IsPress /\ lastEvent'.name # powerButton /\ ~RecognizedKey(lastEvent'.name)) =>
          /\ UNCHANGED <<pressedKeys, pressedButtons, powerOn>>
          /\ cmds' = <<>>]_vars

\* C11 as stated: a note whose node was missing at setup (no rest position is
\* recorded for it) is never in pressedKeys and never gets a triggerAttack or an
\* animation command.
C11_MissingNoteNeverPressed ==
    \A k \in NoteSet \ DOMAIN restPositions :
        /\ Count(pressedKeys, k) = 0
        /\ \A i \in 1..Len(cmds) :
              /\ cmds[i] # TriggerAttack(k)
              /\ ~(cmds[i].op = "gsap.to" /\ cmds[i].obj = KeyNode(k))

\* C12: a key press of a note that is not held appends the note and issues the
\* animation and attack its rest position and the power state call for, whatever
\* pressedButtons holds; a power-button press whose name is not in pressedButtons
\* is accepted whatever pressedKeys holds, and leaves pressedKeys as it is; key
\* presses and releases leave powerOn and pressedButtons as they are.
C12_PowerAndKeysIndependent ==
    [][/\ (IsPress /\ lastEvent'.name = powerButton) =>
             /\ pressedKeys' = pressedKeys
             /\ powerButton \notin pressedButtons =>
                   (powerOn' = ~powerOn /\ lastEvent'.path = "power")
       /\ (IsPress /\ lastEvent'.name # powerButton) =>
             /\ UNCHANGED <<powerOn, pressedButtons>>
             /\ LET name == KeyName(lastEvent'.name)
                IN  (Includes(lastEvent'.name, KeyMarker) /\ ~Falsy(name)
                        /\ Count(pressedKeys, name) = 0) =>
                      /\ pressedKeys' = Append(pressedKeys, name)
                      /\ Len(Animations(cmds', lastEvent'.name))
                            = (IF name \in DOMAIN restPositions THEN 1 ELSE 0)
                      /\ Len(Attacks(cmds')) = (IF powerOn THEN 1 ELSE 0)
       /\ IsRelease => UNCHANGED <<powerOn, pressedButtons>>]_vars

\* A key pressed with the power off, then the power button accepted while that key
\* is held, then a second key accepted while the button's animation is in flight.
C12_Witness ==
    /\ lastEvent.path = "key"
    /\ Len(pressedKeys) = 2
    /\ attackLog = <<pressedKeys[2]>>
    /\ powerOn
    /\ powerButton \in pressedButtons
    /\ timelines # <<>>

\* C13 as stated, in the form a finite run refutes: the completion callback is the
\* only step that takes powerButton out of pressedButtons, and whenever the name is
\* in pressedButtons such a callback is pending, so that the tweening engine
\* running it makes the button pressable again.
C13_ButtonAlwaysReleased ==
    powerButton \in pressedButtons =>
        \E i \in 1..Len(timelines) :
            \E j \in 1..Len(timelines[i]) :
                timelines[i][j].onComplete /\ timelines[i][j].obj = powerButton

\* C14: a release event issues triggerRelease once for every note of pressedKeys,
\* in the order of pressedKeys, and for no other note, with the power on or off
\* and whether or not the note was given an attack.
C14_ReleaseUnconditional ==
    [][IsRelease =>
          /\ Len(SelectSeq(cmds', LAMBDA c : c.op = "triggerRelease")) = Len(pressedKeys)
          /\ \A i \in 1..Len(pressedKeys) :
                SelectSeq(cmds', LAMBDA c : c.op = "triggerRelease")[i]
                    = TriggerRelease(pressedKeys[i])]_vars

\* A release, with the indicator never set (so the power never switched on and no
\* attack ever issued), that sends release commands.
C14_Witness ==
    /\ lastEvent.op = "resetKeys"
    /\ hasLed /\ ledColor = "initial" /\ ~powerOn
    /\ Len(cmds) >= 2
    /\ \A i \in 1..Len(cmds) : cmds[i].op \in {"triggerRelease", "gsap.to"}
    /\ \E i \in 1..Len(cmds) : cmds[i].op = "triggerRelease"

\* C15: every note that was given a triggerAttack and no triggerRelease since is
\* in pressedKeys; so right after a release event no note has an unmatched attack.
C15_NoStuckNotes ==
    /\ \A i \in 1..Len(attackLog) : Count(pressedKeys, attackLog[i]) > 0
    /\ lastEvent.op = "resetKeys" => attackLog = <<>>

\* A key attacked with the power on and still held after the power was switched off.
C15_Witness ==
    /\ ~powerOn
    /\ attackLog # <<>>
    /\ lastEvent.path = "power"

\* No second segment, or an empty one, after the first underscore.
NoSecondSegment(name) ==
    LET us == {i \in 1..Len(name) : name[i] = "_"}
    IN  \/ us = {}
        \/ LET first == CHOOSE i \in us : \A j \in us : i <= j
           IN  first = Len(name) \/ name[first + 1] = "_"

\* C16: a press on an object whose name has the key marker and no non-empty second
\* segment changes none of pressedKeys, pressedButtons and powerOn and issues no
\* command.
C16_UnresolvedKeyNoOp ==
    [][(IsPress /\ lastEvent'.name # powerButton
           /\ (\E i \in 1..(Len(lastEvent'.name) - 2) :
                   SubSeq(lastEvent'.name, i, i + 2) = <<"K","e","y">>)
           /\ NoSecondSegment(lastEvent'.name)) =>
          /\ UNCHANGED <<pressedKeys, pressedButtons, powerOn>>
          /\ cmds' = <<>>
          /\ lastEvent'.path = "key-unresolved"]_vars

C16_Witness ==
    /\ lastEvent.op = "onIntersectObject"
    /\ lastEvent.name = KeyNoNote
    /\ lastEvent.path = "key-unresolved"
    /\ powerOn
    /\ pressedKeys # <<>>

\* C17: where the indicator mesh exists, an accepted power-button press sets its
\* colour to green if powerOn is now true and red if it is now false, no other
\* step changes the colour or powerOn, and a debounced press changes neither; so
\* once the colour has been set, it is green exactly when powerOn holds.
C17_IndicatorFollowsPower ==
    /\ [](hasLed =>
             \/ ledColor = "initial" /\ ~powerOn /\ pressedButtons = {}
             \/ ledColor = "green" /\ powerOn
             \/ ledColor = "red" /\ ~powerOn)
    /\ [][/\ (hasLed /\ lastEvent'.path = "power") =>
                /\ powerOn' # powerOn
                /\ ledColor' = (IF powerOn' THEN "green" ELSE "red")
                /\ \E i \in 1..Len(cmds') : cmds'[i] = SetColorName(ledColor')
          /\ lastEvent'.path # "power" => (ledColor' = ledColor /\ powerOn' = powerOn)
          /\ lastEvent'.path = "power-debounced" => cmds' = <<>>]_vars

\* A press debounced after the second accepted press: power off again, indicator red.
C17_Witness ==
    /\ hasLed
    /\ lastEvent.path = "power-debounced"
    /\ ledColor = "red"
    /\ ~powerOn

\* C18: at most one timeline, and so at most one completion callback, is in flight,
\* and while one is, powerButton is in pressedButtons; the callback runs only with
\* the flag set by the press that scheduled it, that press being the only one
\* accepted since the flag was last clear.
C18_OneCallbackPending ==
    /\ [](/\ Len(timelines) <= 1
          /\ timelines # <<>> => (powerButton \in pressedButtons /\ toggles = 1))
    /\ [][lastEvent'.path = "onComplete" =>
             /\ powerButton \in pressedButtons
             /\ powerButton \notin pressedButtons'
             /\ timelines' = <<>>]_vars

C18_Witness ==
    /\ Len(timelines) = 1
    /\ Len(timelines[1]) = 1
    /\ lastEvent.path = "power-debounced"
    /\ powerButton \in pressedButtons

\* C19: fed the same press, release and animation-completion events on the same
\* keyboard, the manager and GameState's inlined handlers hold the same rest
\* positions, pressed keys, pressed buttons and power state, and have issued the
\* same commands in the same order for the last event.
C19_ManagerMatchesGameState ==
    /\ gsRestPositions = restPositions
    /\ gsPressedKeys = pressedKeys
    /\ gsPressedButtons = pressedButtons
    /\ gsPowerOn = powerOn
    /\ gsLedColor = ledColor
    /\ gsTimelines = timelines
    /\ gsCmds = cmds

\* Both have released two keys, one attacked and one not, with the power button's
\* animation in flight.
C19_Witness ==
    /\ lastEvent.op = "resetKeys"
    /\ Len(gsCmds) = 4
    /\ gsPowerOn
    /\ gsTimelines # <<>>
    /\ powerButton \in gsPressedButtons

====
